---- MODULE Spec2Model ----
(***************************************************************************)
(* Model of modules/src/ics02_client/client_def.rs: the polymorphic       *)
(* light-client containers (AnyHeader, AnyClientState, AnyConsensusState), *)
(* the decoding adapter (TryFromRaw) and the AnyClient dispatcher.         *)
(*                                                                         *)
(* Every Rust function is an operator computed as the code computes it.    *)
(* A dispatcher operation returns its Result together with the trace of    *)
(* the calls it made into the concrete algorithm, so that "delegates",     *)
(* "never invoked" and "exactly once" are observable.  The per-algorithm   *)
(* code (ics07_tendermint, mock_client, the downcast! macro, the prost     *)
(* decoders) is not part of client_def.rs; it is modelled from the         *)
(* specification's section 4.1 / 4.3 / 9 and kept apart below.             *)
(***************************************************************************)
EXTENDS Integers, Sequences, FiniteSets, TLC

\* ---------------------------------------------------------------- bounds
\* Heights range over 1..MaxHeight.
MaxHeight == 3
\* Commitment roots range over 1..MaxRoot.
MaxRoot == 2
\* Payload bytes range over 0..MaxByte, payloads are at most MaxLen long.
MaxByte == 2
MaxLen == 3

VARIABLES
    cfg_test,       \* TRUE iff the crate is built with cfg(test)
    client,         \* the AnyClient dispatcher the caller holds
    client_state,   \* the AnyClientState the protocol store holds
    last            \* the call just made: its name, its arguments, its outcome

vars == <<cfg_test, client, client_state, last>>

\* ------------------------------------------------------- Result / Option
Ok(v) == [ok |-> TRUE, value |-> v]
Err(kind, arg) == [ok |-> FALSE, err |-> <<kind, arg>>]
\* Option<T> is the set of at most one T.
Some(x) == {x}
None == {}
\* A completed call and an aborted one (todo!() panics).
Returned(v) == [panic |-> FALSE, value |-> v]
Panicked == [panic |-> TRUE]

\* ------------------------------------------------------------ ClientType
\* The variants of the four enums; Mock exists only under cfg(test).
ClientType == IF cfg_test THEN {"Tendermint", "Mock"} ELSE {"Tendermint"}

\* ------------------------------------------ per-algorithm value types
Heights == 1..MaxHeight
Roots == 1..MaxRoot
ChainIds == {"chain-A"}

ConcreteClientState ==
    [latest_height : Heights, frozen : BOOLEAN, chain_id : ChainIds]
ConcreteConsensusState == [height : Heights, root : Roots]
ConcreteHeader == [height : Heights, root : Roots, signed : BOOLEAN]

\* ------------------------------------------------ polymorphic containers
\* enum variant constructor: AnyX::Tendermint(x), AnyX::Mock(x)
Variant(tag, x) == [variant |-> tag, inner |-> x]

AnyHeader == {Variant(t, h) : t \in ClientType, h \in ConcreteHeader}
AnyClientState == {Variant(t, s) : t \in ClientType, s \in ConcreteClientState}
AnyConsensusState ==
    {Variant(t, s) : t \in ClientType, s \in ConcreteConsensusState}

\* ------------------------------------------------------------- downcast!
\* downcast!(e => AnyX::P): Some(inner) when e's active variant is P.
downcast(e, p) == IF e.variant = p THEN Some(e.inner) ELSE None
\* downcast!(e1 => P1, e2 => P2): Option::zip of the two narrowings.
downcast2(e1, p1, e2, p2) ==
    {<<a, b>> : a \in downcast(e1, p1), b \in downcast(e2, p2)}

\* ------------------------------- the concrete algorithms (ClientDef impls)
\* TendermintClient / MockClient :: check_header_and_update_state.
\* A frozen client accepts nothing; the header must advance the height
\* strictly and carry valid evidence.  Pure function of its inputs.
ClientDef_check_header_and_update_state(alg, cs, header) ==
    IF cs.frozen THEN Err("ClientFrozen", alg)
    ELSE IF header.height < cs.latest_height THEN Err("StaleHeader", alg)
    ELSE IF header.height = cs.latest_height THEN Err("ConflictingHeader", alg)
    ELSE IF ~header.signed THEN Err("InvalidHeader", alg)
    ELSE Ok(<<[cs EXCEPT !.latest_height = header.height],
              [height |-> header.height, root |-> header.root]>>)

\* The commitment-proof verifier: an opaque trusted dependency.
Proofs == {"proves", "refutes"}
\* client_state holds a trusted root at every height up to its latest one.
HasRootAt(cs, height) == height <= cs.latest_height

\* verify_client_consensus_state of the concrete algorithm.
\* args = [height, prefix, proof, client_id, consensus_height,
\*         expected_consensus_state]
ClientDef_verify_client_consensus_state(alg, cs, args) ==
    IF ~HasRootAt(cs, args.height) THEN Err("RootNotFound", alg)
    ELSE IF args.proof # "proves" THEN Err("ProofVerificationFailed", alg)
    ELSE Ok(<<>>)

\* verify_connection_state of the concrete algorithm.
\* args = [height, prefix, proof, connection_id, expected_connection_end]
ClientDef_verify_connection_state(alg, cs, args) ==
    IF ~HasRootAt(cs, args.height) THEN Err("RootNotFound", alg)
    ELSE IF args.proof # "proves" THEN Err("ProofVerificationFailed", alg)
    ELSE Ok(<<>>)

\* verify_client_full_state of the concrete algorithm: checked against the
\* root the caller supplies.
\* args = [height, root, prefix, client_id, proof,
\*         client_state_on_counterparty]
ClientDef_verify_client_full_state(alg, cs, args) ==
    IF args.proof # "proves" THEN Err("ProofVerificationFailed", alg)
    ELSE Ok(<<>>)

\* One invocation of a concrete algorithm's operation, as the dispatcher
\* makes it: which algorithm, which operation, the narrowed client state and
\* the remaining arguments.
Call(alg, op, cs, args) ==
    [alg |-> alg, op |-> op, client_state |-> cs, args |-> args]
\* What a dispatcher operation did: its Result and the calls it made.
Outcome(result, calls) == [result |-> result, calls |-> calls]

\* -------------------------------------------------------------- AnyClient
\* AnyClient::from_client_type: the variant holding the algorithm's token.
from_client_type(client_type) ==
    CASE client_type = "Tendermint" -> Variant("Tendermint", "TendermintClient")
      [] client_type = "Mock" -> Variant("Mock", "MockClient")

AnyClient == {from_client_type(t) : t \in ClientType}

\* Mutant: the header is used without being narrowed (an unchecked cast).
check_header_header_not_narrowed(self, cs, header) ==
    IF cs.variant # self.variant
    THEN Outcome(Err("ClientArgsTypeMismatch", self.variant), <<>>)
    ELSE LET r == ClientDef_check_header_and_update_state(
                      self.inner, cs.inner, header.inner)
             calls == <<Call(self.inner, "check_header_and_update_state",
                             cs.inner, header.inner)>>
         IN IF ~r.ok THEN Outcome(r, calls)
            ELSE Outcome(Ok(<<Variant(self.variant, r.value[1]),
                              Variant(self.variant, r.value[2])>>), calls)

\* Mutant: a failure of the concrete algorithm is swallowed (the `?` replaced
\* by a fallback to the input state).
check_header_error_swallowed(self, cs, header) ==
    LET narrowed == downcast2(cs, self.variant, header, self.variant) IN
    IF narrowed = None
    THEN Outcome(Err("ClientArgsTypeMismatch", self.variant), <<>>)
    ELSE LET pair == CHOOSE x \in narrowed : TRUE
             r == ClientDef_check_header_and_update_state(
                      self.inner, pair[1], pair[2])
             calls == <<Call(self.inner, "check_header_and_update_state",
                             pair[1], pair[2])>>
             kept == <<pair[1], [height |-> pair[2].height, root |-> pair[2].root]>>
             got == IF r.ok THEN r.value ELSE kept
         IN Outcome(Ok(<<Variant(self.variant, got[1]),
                         Variant(self.variant, got[2])>>), calls)

\* Mutant: the new state is built from the header without the concrete
\* algorithm's verification.
check_header_not_verified(self, cs, header) ==
    LET narrowed == downcast2(cs, self.variant, header, self.variant) IN
    IF narrowed = None
    THEN Outcome(Err("ClientArgsTypeMismatch", self.variant), <<>>)
    ELSE LET pair == CHOOSE x \in narrowed : TRUE IN
         Outcome(Ok(<<Variant(self.variant,
                              [pair[1] EXCEPT !.latest_height = pair[2].height]),
                      Variant(self.variant,
                              [height |-> pair[2].height, root |-> pair[2].root])>>),
                 <<>>)

\* Mutant: the Mock arm wraps the new consensus state in the Tendermint
\* variant (a copy-and-paste slip between the two arms).
check_header_mixed_rewrap(self, cs, header) ==
    LET narrowed == downcast2(cs, self.variant, header, self.variant) IN
    IF narrowed = None
    THEN Outcome(Err("ClientArgsTypeMismatch", self.variant), <<>>)
    ELSE LET pair == CHOOSE x \in narrowed : TRUE
             r == ClientDef_check_header_and_update_state(
                      self.inner, pair[1], pair[2])
             calls == <<Call(self.inner, "check_header_and_update_state",
                             pair[1], pair[2])>>
         IN IF ~r.ok THEN Outcome(r, calls)
            ELSE Outcome(Ok(<<Variant(self.variant, r.value[1]),
                              Variant("Tendermint", r.value[2])>>), calls)

\* impl ClientDef for AnyClient: check_header_and_update_state.
check_header_and_update_state(self, cs, header) ==
    CASE self.variant = "Tendermint" ->
           LET narrowed == downcast2(cs, "Tendermint", header, "Tendermint") IN
           IF narrowed = None
           THEN Outcome(Err("ClientArgsTypeMismatch", "Tendermint"), <<>>)
           ELSE LET pair == CHOOSE x \in narrowed : TRUE
                    r == ClientDef_check_header_and_update_state(
                             self.inner, pair[1], pair[2])
                    calls == <<Call(self.inner, "check_header_and_update_state",
                                    pair[1], pair[2])>>
                IN IF ~r.ok THEN Outcome(r, calls)
                   ELSE Outcome(Ok(<<Variant("Tendermint", r.value[1]),
                                     Variant("Tendermint", r.value[2])>>), calls)
      [] self.variant = "Mock" ->
           LET narrowed == downcast2(cs, "Mock", header, "Mock") IN
           IF narrowed = None
           THEN Outcome(Err("ClientArgsTypeMismatch", "Mock"), <<>>)
           ELSE LET pair == CHOOSE x \in narrowed : TRUE
                    r == ClientDef_check_header_and_update_state(
                             self.inner, pair[1], pair[2])
                    calls == <<Call(self.inner, "check_header_and_update_state",
                                    pair[1], pair[2])>>
                IN IF ~r.ok THEN Outcome(r, calls)
                   ELSE Outcome(Ok(<<Variant("Mock", r.value[1]),
                                     Variant("Mock", r.value[2])>>), calls)

\* impl ClientDef for AnyClient: verify_client_consensus_state.  Only
\* client_state is narrowed; expected_consensus_state is handed on as it is.
verify_client_consensus_state(self, cs, args) ==
    CASE self.variant = "Tendermint" ->
           LET narrowed == downcast(cs, "Tendermint") IN
           IF narrowed = None
           THEN Outcome(Err("ClientArgsTypeMismatch", "Tendermint"), <<>>)
           ELSE LET c == CHOOSE x \in narrowed : TRUE IN
                Outcome(ClientDef_verify_client_consensus_state(self.inner, c, args),
                        <<Call(self.inner, "verify_client_consensus_state", c, args)>>)
      [] self.variant = "Mock" ->
           LET narrowed == downcast(cs, "Mock") IN
           IF narrowed = None
           THEN Outcome(Err("ClientArgsTypeMismatch", "Mock"), <<>>)
           ELSE LET c == CHOOSE x \in narrowed : TRUE IN
                Outcome(ClientDef_verify_client_consensus_state(self.inner, c, args),
                        <<Call(self.inner, "verify_client_consensus_state", c, args)>>)

\* impl ClientDef for AnyClient: verify_connection_state.
verify_connection_state(self, cs, args) ==
    CASE self.variant = "Tendermint" ->
           LET narrowed == downcast(cs, "Tendermint") IN
           IF narrowed = None
           THEN Outcome(Err("ClientArgsTypeMismatch", "Tendermint"), <<>>)
           ELSE LET c == CHOOSE x \in narrowed : TRUE IN
                Outcome(ClientDef_verify_connection_state(self.inner, c, args),
                        <<Call(self.inner, "verify_connection_state", c, args)>>)
      [] self.variant = "Mock" ->
           LET narrowed == downcast(cs, "Mock") IN
           IF narrowed = None
           THEN Outcome(Err("ClientArgsTypeMismatch", "Mock"), <<>>)
           ELSE LET c == CHOOSE x \in narrowed : TRUE IN
                Outcome(ClientDef_verify_connection_state(self.inner, c, args),
                        <<Call(self.inner, "verify_connection_state", c, args)>>)

\* Mutant: the dispatcher's own client_state is handed on in the place of
\* client_state_on_counterparty.
verify_client_full_state_wrong_state(self, cs, args) ==
    IF cs.variant # self.variant
    THEN Outcome(Err("ClientArgsTypeMismatch", self.variant), <<>>)
    ELSE LET passed == [args EXCEPT !.client_state_on_counterparty = cs] IN
         Outcome(ClientDef_verify_client_full_state(self.inner, cs.inner, passed),
                 <<Call(self.inner, "verify_client_full_state", cs.inner, passed)>>)

\* impl ClientDef for AnyClient: verify_client_full_state.  Only client_state
\* is narrowed; client_state_on_counterparty is handed on as it is.
verify_client_full_state(self, cs, args) ==
    CASE self.variant = "Tendermint" ->
           LET narrowed == downcast(cs, "Tendermint") IN
           IF narrowed = None
           THEN Outcome(Err("ClientArgsTypeMismatch", "Tendermint"), <<>>)
           ELSE LET c == CHOOSE x \in narrowed : TRUE IN
                Outcome(ClientDef_verify_client_full_state(self.inner, c, args),
                        <<Call(self.inner, "verify_client_full_state", c, args)>>)
      [] self.variant = "Mock" ->
           LET narrowed == downcast(cs, "Mock") IN
           IF narrowed = None
           THEN Outcome(Err("ClientArgsTypeMismatch", "Mock"), <<>>)
           ELSE LET c == CHOOSE x \in narrowed : TRUE IN
                Outcome(ClientDef_verify_client_full_state(self.inner, c, args),
                        <<Call(self.inner, "verify_client_full_state", c, args)>>)

\* ------------------------------------------------- raw payloads, decoders
\* prost_types::Any: a type tag and raw bytes.
TypeUrls ==
    {"/ibc.tendermint.ClientState", "/ibc.mock.ClientState",
     "/ibc.tendermint.ConsensusState", "/ibc.mock.ConsensusState",
     "/ibc.solomachine.ClientState"}
Bytes == UNION {[1..n -> 0..MaxByte] : n \in 0..MaxLen}
RawAny == [type_url : TypeUrls, value : Bytes]

\* prost::Message::decode for a raw client state: two fields on the wire.
RawClientState_decode(bytes) ==
    IF Len(bytes) = 2
    THEN Ok([latest_height |-> bytes[1], frozen_height |-> bytes[2]])
    ELSE Err("DecodeError", "")
\* prost::Message::decode for a raw consensus state: two fields on the wire.
RawConsensusState_decode(bytes) ==
    IF Len(bytes) = 2
    THEN Ok([height |-> bytes[1], root |-> bytes[2]])
    ELSE Err("DecodeError", "")
\* The algorithm's validity constructor for a client state.
ClientState_try_from(raw) ==
    IF raw.latest_height = 0 THEN Err("InvalidLatestHeight", "")
    ELSE Ok([latest_height |-> raw.latest_height,
             frozen |-> raw.frozen_height # 0,
             chain_id |-> "chain-A"])
\* The algorithm's validity constructor for a consensus state.
ConsensusState_try_from(raw) ==
    IF raw.height = 0 THEN Err("InvalidHeight", "")
    ELSE IF raw.root = 0 THEN Err("EmptyRoot", "")
    ELSE Ok([height |-> raw.height, root |-> raw.root])

\* Mutant: the two error kinds of a registered tag are exchanged.
AnyClientState_try_from_kinds_swapped(raw) ==
    IF raw.type_url \in {"/ibc.tendermint.ClientState"} \cup
                        (IF cfg_test THEN {"/ibc.mock.ClientState"} ELSE {})
    THEN LET alg == IF raw.type_url = "/ibc.tendermint.ClientState"
                    THEN "Tendermint" ELSE "Mock"
             d == RawClientState_decode(raw.value)
         IN IF ~d.ok
            THEN Outcome(Err("InvalidRawClientState", ""), <<"decode">>)
            ELSE LET v == ClientState_try_from(d.value) IN
                 IF ~v.ok
                 THEN Outcome(Err("ProtoDecodingFailure", ""), <<"decode", "try_from">>)
                 ELSE Outcome(Ok(Variant(alg, v.value)), <<"decode", "try_from">>)
    ELSE Outcome(Err("UnknownClientStateType", raw.type_url), <<>>)

\* impl TryFromRaw for AnyClientState.  The calls trace lists the decoding
\* steps the adapter ran.
AnyClientState_try_from(raw) ==
    CASE raw.type_url = "/ibc.tendermint.ClientState" ->
           LET d == RawClientState_decode(raw.value) IN
           IF ~d.ok
           THEN Outcome(Err("ProtoDecodingFailure", ""),
                        <<"RawTendermintClientState::decode">>)
           ELSE LET v == ClientState_try_from(d.value)
                    steps == <<"RawTendermintClientState::decode",
                               "TendermintClientState::try_from">>
                IN IF ~v.ok THEN Outcome(Err("InvalidRawClientState", ""), steps)
                   ELSE Outcome(Ok(Variant("Tendermint", v.value)), steps)
      [] cfg_test /\ raw.type_url = "/ibc.mock.ClientState" ->
           LET d == RawClientState_decode(raw.value) IN
           IF ~d.ok
           THEN Outcome(Err("ProtoDecodingFailure", ""),
                        <<"RawMockClientState::decode">>)
           ELSE LET v == ClientState_try_from(d.value)
                    steps == <<"RawMockClientState::decode",
                               "MockClientState::try_from">>
                IN IF ~v.ok THEN Outcome(Err("InvalidRawClientState", ""), steps)
                   ELSE Outcome(Ok(Variant("Mock", v.value)), steps)
      [] OTHER -> Outcome(Err("UnknownClientStateType", raw.type_url), <<>>)

\* Mutant: the fallback arm reports the client-state error kind (copied from
\* the AnyClientState adapter).
AnyConsensusState_try_from_wrong_unknown(value) ==
    IF value.type_url = "/ibc.tendermint.ConsensusState"
    THEN LET d == RawConsensusState_decode(value.value) IN
         IF ~d.ok THEN Outcome(Err("ProtoDecodingFailure", ""), <<"decode">>)
         ELSE LET v == ConsensusState_try_from(d.value) IN
              IF ~v.ok
              THEN Outcome(Err("InvalidRawConsensusState", ""), <<"decode", "try_from">>)
              ELSE Outcome(Ok(Variant("Tendermint", v.value)), <<"decode", "try_from">>)
    ELSE Outcome(Err("UnknownClientStateType", value.type_url), <<>>)

\* impl TryFromRaw for AnyConsensusState.  The mock arm is commented out in
\* the source, so only the Tendermint tag is in the table.
AnyConsensusState_try_from(value) ==
    CASE value.type_url = "/ibc.tendermint.ConsensusState" ->
           LET d == RawConsensusState_decode(value.value) IN
           IF ~d.ok
           THEN Outcome(Err("ProtoDecodingFailure", ""),
                        <<"RawTendermintConsensusState::decode">>)
           ELSE LET v == ConsensusState_try_from(d.value)
                    steps == <<"RawTendermintConsensusState::decode",
                               "TendermintConsensusState::try_from">>
                IN IF ~v.ok THEN Outcome(Err("InvalidRawConsensusState", ""), steps)
                   ELSE Outcome(Ok(Variant("Tendermint", v.value)), steps)
      [] OTHER -> Outcome(Err("UnknownConsensusStateType", value.type_url), <<>>)

\* --------------------------------------------------- capability accessors
\* The accessors of the concrete per-algorithm values.
TendermintClientState_client_type(state) == "Tendermint"
MockClientState_client_type(state) == "Mock"
ClientState_chain_id(state) == state.chain_id
ClientState_latest_height(state) == state.latest_height
ClientState_is_frozen(state) == state.frozen
ConsensusState_height(state) == state.height
ConsensusState_root(state) == state.root
ConsensusState_validate_basic(state) == Ok(<<>>)

\* impl ClientState for AnyClientState.
AnyClientState_chain_id(self) == Panicked   \* todo!()

AnyClientState_client_type(self) ==
    CASE self.variant = "Tendermint" ->
           Returned(TendermintClientState_client_type(self.inner))
      [] self.variant = "Mock" ->
           Returned(MockClientState_client_type(self.inner))

AnyClientState_latest_height(self) ==
    CASE self.variant = "Tendermint" ->
           Returned(ClientState_latest_height(self.inner))
      [] self.variant = "Mock" ->
           Returned(ClientState_latest_height(self.inner))

AnyClientState_is_frozen(self) ==
    CASE self.variant = "Tendermint" -> Returned(ClientState_is_frozen(self.inner))
      [] self.variant = "Mock" -> Returned(ClientState_is_frozen(self.inner))

\* impl ConsensusState for AnyConsensusState: every accessor is todo!().
AnyConsensusState_client_type(self) == Panicked
AnyConsensusState_height(self) == Panicked
AnyConsensusState_root(self) == Panicked
AnyConsensusState_validate_basic(self) == Panicked

\* ------------------------------------------------------ inputs of the calls
Prefixes == {"ibc"}
ClientIds == {"07-tendermint-0"}
ConnectionIds == {"connection-0"}
ConnectionEnds == {"conn-init", "conn-open"}

ConsensusProofArgs ==
    [height : Heights, prefix : Prefixes, proof : Proofs, client_id : ClientIds,
     consensus_height : Heights, expected_consensus_state : AnyConsensusState]
ConnectionProofArgs ==
    [height : Heights, prefix : Prefixes, proof : Proofs,
     connection_id : ConnectionIds, expected_connection_end : ConnectionEnds]
FullStateProofArgs ==
    [height : Heights, root : Roots, prefix : Prefixes, client_id : ClientIds,
     proof : Proofs, client_state_on_counterparty : AnyClientState]

ClientStateAccessors == {"chain_id", "client_type", "latest_height", "is_frozen"}
ConsensusStateAccessors == {"client_type", "height", "root", "validate_basic"}

\* A call of the named accessor on an AnyClientState.
AnyClientState_call(name, self) ==
    CASE name = "chain_id" -> AnyClientState_chain_id(self)
      [] name = "client_type" -> AnyClientState_client_type(self)
      [] name = "latest_height" -> AnyClientState_latest_height(self)
      [] name = "is_frozen" -> AnyClientState_is_frozen(self)

\* A call of the named accessor on an AnyConsensusState.
AnyConsensusState_call(name, self) ==
    CASE name = "client_type" -> AnyConsensusState_client_type(self)
      [] name = "height" -> AnyConsensusState_height(self)
      [] name = "root" -> AnyConsensusState_root(self)
      [] name = "validate_basic" -> AnyConsensusState_validate_basic(self)

\* The record of a call: the operation, what it was given, what it did.
Record(op, input, out) == [op |-> op, input |-> input, out |-> out]

\* --------------------------------------------------------------- the system
\* A caller holds a dispatcher and the store holds a client state; nothing
\* forces the two to be of one algorithm (mixed-up handles are the caller bug
\* ClientArgsTypeMismatch reports).
Init ==
    /\ cfg_test \in BOOLEAN
    /\ client \in AnyClient
    /\ client_state \in AnyClientState
    /\ last = [op |-> "none"]

\* The store presents a header: on success it persists the returned client
\* state, on failure it keeps the one it has.
CheckHeaderAndUpdateState ==
    /\ last.op = "none"
    /\ \E header \in AnyHeader :
        LET out == check_header_and_update_state(client, client_state, header) IN
        /\ last' = Record("check_header_and_update_state",
                          [client_state |-> client_state, args |-> header], out)
        /\ client_state' = IF out.result.ok THEN out.result.value[1]
                           ELSE client_state
        /\ UNCHANGED <<cfg_test, client>>

VerifyClientConsensusState ==
    /\ last.op = "none"
    /\ \E args \in ConsensusProofArgs :
        /\ last' = Record("verify_client_consensus_state",
                          [client_state |-> client_state, args |-> args],
                          verify_client_consensus_state(client, client_state, args))
        /\ UNCHANGED <<cfg_test, client, client_state>>

VerifyConnectionState ==
    /\ last.op = "none"
    /\ \E args \in ConnectionProofArgs :
        /\ last' = Record("verify_connection_state",
                          [client_state |-> client_state, args |-> args],
                          verify_connection_state(client, client_state, args))
        /\ UNCHANGED <<cfg_test, client, client_state>>

VerifyClientFullState ==
    /\ last.op = "none"
    /\ \E args \in FullStateProofArgs :
        /\ last' = Record("verify_client_full_state",
                          [client_state |-> client_state, args |-> args],
                          verify_client_full_state(client, client_state, args))
        /\ UNCHANGED <<cfg_test, client, client_state>>

DecodeClientState ==
    /\ last.op = "none"
    /\ \E raw \in RawAny :
        /\ last' = Record("AnyClientState::try_from", raw,
                          AnyClientState_try_from(raw))
        /\ UNCHANGED <<cfg_test, client, client_state>>

DecodeConsensusState ==
    /\ last.op = "none"
    /\ \E raw \in RawAny :
        /\ last' = Record("AnyConsensusState::try_from", raw,
                          AnyConsensusState_try_from(raw))
        /\ UNCHANGED <<cfg_test, client, client_state>>

ClientStateAccessor ==
    /\ last.op = "none"
    /\ \E name \in ClientStateAccessors :
        /\ last' = Record("AnyClientState::accessor",
                          [name |-> name, self |-> client_state],
                          AnyClientState_call(name, client_state))
        /\ UNCHANGED <<cfg_test, client, client_state>>

ConsensusStateAccessor ==
    /\ last.op = "none"
    /\ \E name \in ConsensusStateAccessors, self \in AnyConsensusState :
        /\ last' = Record("AnyConsensusState::accessor",
                          [name |-> name, self |-> self],
                          AnyConsensusState_call(name, self))
        /\ UNCHANGED <<cfg_test, client, client_state>>

\* The caller takes the outcome of the call; the layer itself retains nothing
\* of a finished call.
Return ==
    /\ last.op # "none"
    /\ last' = [op |-> "none"]
    /\ UNCHANGED <<cfg_test, client, client_state>>

Next ==
    \/ CheckHeaderAndUpdateState
    \/ VerifyClientConsensusState
    \/ VerifyConnectionState
    \/ VerifyClientFullState
    \/ DecodeClientState
    \/ DecodeConsensusState
    \/ ClientStateAccessor
    \/ ConsensusStateAccessor
    \/ Return

Spec == Init /\ [][Next]_vars

\* ================================================================ claims
DispatcherOps ==
    {"check_header_and_update_state", "verify_client_consensus_state",
     "verify_connection_state", "verify_client_full_state"}
VerificationOps == DispatcherOps \ {"check_header_and_update_state"}
Mismatch(A) == Err("ClientArgsTypeMismatch", A)

\* The variants of every polymorphic argument of the call just made.
ArgVariants(c) ==
    {c.input.client_state.variant} \cup
    CASE c.op = "check_header_and_update_state" -> {c.input.args.variant}
      [] c.op = "verify_client_consensus_state" ->
           {c.input.args.expected_consensus_state.variant}
      [] c.op = "verify_client_full_state" ->
           {c.input.args.client_state_on_counterparty.variant}
      [] OTHER -> {}
\* The variants of the arguments the dispatcher narrows.
NarrowedVariants(c) ==
    {c.input.client_state.variant} \cup
    (IF c.op = "check_header_and_update_state" THEN {c.input.args.variant} ELSE {})

IsUpdate == last.op = "check_header_and_update_state"
\* latest_height() / is_frozen() of a container, through its accessor.
LatestHeightOf(cs) == AnyClientState_latest_height(cs).value
IsFrozen(cs) == AnyClientState_is_frozen(cs) = Returned(TRUE)

\* C2: frozen is terminal.  A check_header_and_update_state call on a client
\* state whose is_frozen() is true fails, whatever the header, and the store
\* never replaces a frozen client state by another one.
C2_FrozenIsTerminal ==
    /\ [](IsUpdate /\ IsFrozen(last.input.client_state) =>
              /\ ~last.out.result.ok
              /\ client_state = last.input.client_state)
    /\ [][IsFrozen(client_state) => client_state' = client_state]_vars

\* C2 witness: a correctly signed header above the latest height was
\* presented to a frozen client whose algorithm matches the dispatcher.
C2_Witness ==
    /\ IsUpdate
    /\ IsFrozen(last.input.client_state)
    /\ last.input.client_state.variant = client.variant
    /\ last.input.args.variant = client.variant
    /\ last.input.args.inner.signed
    /\ last.input.args.inner.height > LatestHeightOf(last.input.client_state)

\* C3: monotonicity.  Every successful check_header_and_update_state returns
\* a client state whose latest_height() is at least the input's, and the
\* latest_height() of the stored client state never decreases.
C3_LatestHeightMonotonic ==
    /\ [](IsUpdate /\ last.out.result.ok =>
              LatestHeightOf(last.out.result.value[1])
                  >= LatestHeightOf(last.input.client_state))
    /\ [][LatestHeightOf(client_state') >= LatestHeightOf(client_state)]_vars

\* C3 witness: an update succeeded and the stored client state is the
\* returned one, higher than the input.
C3_Witness ==
    /\ IsUpdate
    /\ last.out.result.ok
    /\ client_state = last.out.result.value[1]
    /\ LatestHeightOf(client_state) > LatestHeightOf(last.input.client_state)

\* C6: re-wrapping preserves algorithm identity.  A successful
\* check_header_and_update_state on a dispatcher bound to A returns two
\* containers of variant A that wrap exactly the pair A's concrete
\* check_header_and_update_state returned for the narrowed arguments.
C6_RewrapPreservesAlgorithm ==
    (IsUpdate /\ last.out.result.ok) =>
        LET concrete == ClientDef_check_header_and_update_state(
                            client.inner, last.input.client_state.inner,
                            last.input.args.inner)
            new_state == last.out.result.value[1]
            new_consensus == last.out.result.value[2]
        IN /\ new_state.variant = client.variant
           /\ new_consensus.variant = client.variant
           /\ concrete.ok
           /\ <<new_state.inner, new_consensus.inner>> = concrete.value

\* C6 witness: a dispatcher bound to Mock accepted a header.
C6_Witness ==
    /\ IsUpdate
    /\ last.out.result.ok
    /\ client.variant = "Mock"
    /\ last.out.result.value[2].inner.height = last.input.args.inner.height

\* ------------------------------------------------------- decoding adapter
IsClientDecode == last.op = "AnyClientState::try_from"
IsConsensusDecode == last.op = "AnyConsensusState::try_from"
\* The tag table of the adapter, as the build registers it.
RegisteredClientStateTags ==
    {"/ibc.tendermint.ClientState"} \cup
    (IF cfg_test THEN {"/ibc.mock.ClientState"} ELSE {})
RegisteredConsensusStateTags == {"/ibc.tendermint.ConsensusState"}
\* The tag an algorithm's own client state / consensus state travels under.
ClientStateTag(A) ==
    IF A = "Tendermint" THEN "/ibc.tendermint.ClientState"
    ELSE "/ibc.mock.ClientState"
ConsensusStateTag(A) ==
    IF A = "Tendermint" THEN "/ibc.tendermint.ConsensusState"
    ELSE "/ibc.mock.ConsensusState"
\* Bytes that decode and pass the algorithm's structural validation.
ValidClientStateBytes(b) ==
    RawClientState_decode(b).ok /\ ClientState_try_from(RawClientState_decode(b).value).ok
ValidConsensusStateBytes(b) ==
    /\ RawConsensusState_decode(b).ok
    /\ ConsensusState_try_from(RawConsensusState_decode(b).value).ok

\* C4: unrecognized tags fail closed.  A payload whose tag is not in the
\* table fails with UnknownClientStateType(tag), resp.
\* UnknownConsensusStateType(tag), carrying the tag, whatever the bytes and
\* with no decoding step run.
C4_UnknownTagFailsClosed ==
    /\ (IsClientDecode /\ last.input.type_url \notin RegisteredClientStateTags) =>
           /\ last.out.result = Err("UnknownClientStateType", last.input.type_url)
           /\ last.out.calls = <<>>
    /\ (IsConsensusDecode /\ last.input.type_url \notin RegisteredConsensusStateTags) =>
           /\ last.out.result = Err("UnknownConsensusStateType", last.input.type_url)
           /\ last.out.calls = <<>>

\* C4 witness: a consensus-state payload with well-formed bytes under a
\* client-state tag was refused as unknown.
C4_Witness ==
    /\ IsConsensusDecode
    /\ last.input.type_url = "/ibc.tendermint.ClientState"
    /\ ValidConsensusStateBytes(last.input.value)
    /\ ~last.out.result.ok

\* C5: for every supported algorithm A, a payload under A's own client-state
\* or consensus-state tag with valid bytes decodes to the container variant
\* of A.
C5_OwnTagDecodesToOwnVariant ==
    /\ IsClientDecode =>
           \A A \in ClientType :
               (last.input.type_url = ClientStateTag(A)
                    /\ ValidClientStateBytes(last.input.value)) =>
                   (last.out.result.ok /\ last.out.result.value.variant = A)
    /\ IsConsensusDecode =>
           \A A \in ClientType :
               (last.input.type_url = ConsensusStateTag(A)
                    /\ ValidConsensusStateBytes(last.input.value)) =>
                   (last.out.result.ok /\ last.out.result.value.variant = A)

\* C9: error classification for a registered tag.  The adapter fails with
\* ProtoDecodingFailure exactly when byte decoding fails, with
\* InvalidRawClientState / InvalidRawConsensusState exactly when decoding
\* succeeds and the validity constructor rejects the value, and returns a
\* container otherwise; the validity constructor runs only after a
\* successful decoding.
C9_DecodingErrorClassification ==
    /\ (IsClientDecode /\ last.input.type_url \in RegisteredClientStateTags) =>
           LET d == RawClientState_decode(last.input.value)
               r == last.out.result
           IN /\ (~r.ok /\ r.err[1] = "ProtoDecodingFailure") <=> ~d.ok
              /\ (~r.ok /\ r.err[1] = "InvalidRawClientState")
                     <=> (d.ok /\ ~ClientState_try_from(d.value).ok)
              /\ r.ok <=> ValidClientStateBytes(last.input.value)
              /\ Len(last.out.calls) = IF d.ok THEN 2 ELSE 1
    /\ (IsConsensusDecode /\ last.input.type_url \in RegisteredConsensusStateTags) =>
           LET d == RawConsensusState_decode(last.input.value)
               r == last.out.result
           IN /\ (~r.ok /\ r.err[1] = "ProtoDecodingFailure") <=> ~d.ok
              /\ (~r.ok /\ r.err[1] = "InvalidRawConsensusState")
                     <=> (d.ok /\ ~ConsensusState_try_from(d.value).ok)
              /\ r.ok <=> ValidConsensusStateBytes(last.input.value)
              /\ Len(last.out.calls) = IF d.ok THEN 2 ELSE 1

\* C9 witness: bytes that decode but fail structural validation were
\* refused as an invalid raw client state.
C9_Witness ==
    /\ IsClientDecode
    /\ last.input.type_url \in RegisteredClientStateTags
    /\ RawClientState_decode(last.input.value).ok
    /\ ~last.out.result.ok
    /\ last.out.result.err[1] = "InvalidRawClientState"

\* ------------------------------------------------------------- accessors
\* What the named accessor returns on the wrapped active variant.
InnerClientStateAccessor(name, self) ==
    CASE name = "chain_id" -> ClientState_chain_id(self.inner)
      [] name = "client_type" ->
           IF self.variant = "Tendermint"
           THEN TendermintClientState_client_type(self.inner)
           ELSE MockClientState_client_type(self.inner)
      [] name = "latest_height" -> ClientState_latest_height(self.inner)
      [] name = "is_frozen" -> ClientState_is_frozen(self.inner)
InnerConsensusStateAccessor(name, self) ==
    CASE name = "client_type" -> self.variant
      [] name = "height" -> ConsensusState_height(self.inner)
      [] name = "root" -> ConsensusState_root(self.inner)
      [] name = "validate_basic" -> ConsensusState_validate_basic(self.inner)

\* C7: every capability accessor of AnyClientState and AnyConsensusState
\* completes normally and returns what the same accessor returns on the
\* wrapped active variant.
C7_AccessorsPassThrough ==
    /\ last.op = "AnyClientState::accessor" =>
           /\ ~last.out.panic
           /\ last.out.value =
                  InnerClientStateAccessor(last.input.name, last.input.self)
    /\ last.op = "AnyConsensusState::accessor" =>
           /\ ~last.out.panic
           /\ last.out.value =
                  InnerConsensusStateAccessor(last.input.name, last.input.self)

\* ---------------------------------------------------------- verification
\* What the concrete algorithm answers to the named verification.
ConcreteVerify(op, alg, cs, args) ==
    CASE op = "verify_client_consensus_state" ->
           ClientDef_verify_client_consensus_state(alg, cs, args)
      [] op = "verify_connection_state" ->
           ClientDef_verify_connection_state(alg, cs, args)
      [] op = "verify_client_full_state" ->
           ClientDef_verify_client_full_state(alg, cs, args)

\* C10: faithful delegation.  With a client_state of the dispatcher's variant
\* A, each verification operation calls the same-named operation of A's
\* concrete algorithm exactly once, with the narrowed client_state and the
\* other arguments unchanged, returns exactly its outcome, and leaves the
\* client state as it was.
C10_VerificationDelegates ==
    (last.op \in VerificationOps
         /\ last.input.client_state.variant = client.variant) =>
        /\ last.out.calls =
               <<Call(client.inner, last.op, last.input.client_state.inner,
                      last.input.args)>>
        /\ last.out.result =
               ConcreteVerify(last.op, client.inner,
                              last.input.client_state.inner, last.input.args)
        /\ client_state = last.input.client_state

\* C10 witness: a full-state verification on a matching client state was
\* refused by the concrete algorithm and the refusal was returned.
C10_Witness ==
    /\ last.op = "verify_client_full_state"
    /\ last.input.client_state.variant = client.variant
    /\ last.input.args.client_state_on_counterparty # last.input.client_state
    /\ ~last.out.result.ok
    /\ last.out.result.err[1] = "ProofVerificationFailed"

====
